---- MODULE Spec2Model ----
(***************************************************************************)
(* GridFile: the grid-field loader of BOUT++ (griddata.cxx).               *)
(*                                                                         *)
(* A GridFile owns a DataFormat backend with a global-origin cursor.  The  *)
(* model keeps the members of GridFile (grid_yguards, ny_inner), the       *)
(* backend state the loader touches (validity, cursor, the stored          *)
(* variables) and, for the call in progress, its arguments and outcome.    *)
(* Each public method is one action; its outcome is computed by operators  *)
(* that follow the method statement by statement.                          *)
(*                                                                         *)
(* Values: a real or integer value v is the one-element sequence <<v>>, an *)
(* uninitialised cell is << >>.  A field is stored as BOUT++ stores it: a  *)
(* contiguous array indexed (x*ny + y)*nz + z.                             *)
(***************************************************************************)
EXTENDS Integers, Sequences, FiniteSets, TLC

VARIABLES
  valid,        \* file->is_valid()
  cursor,       \* the backend's global origin <<x, y, z>>
  fileYGuards,  \* "y_boundary_guards" in the file: << >> (absent) or <<v>>
  fileNyInner,  \* "ny_inner" in the file: << >> (absent) or <<v>>
  fileHasNz,    \* whether the file stores "nz"
  grid_yguards, \* GridFile::grid_yguards
  ny_inner,     \* GridFile::ny_inner
  pc,           \* "idle" (between calls) or "done" (a call has just ended)
  call,         \* the arguments of the last call
  res           \* the outcome of the last call

vars == <<valid, cursor, fileYGuards, fileNyInner, fileHasNz, grid_yguards,
          ny_inner, pc, call, res>>

(***************************************************************************)
(* Bounds of the model.                                                    *)
(***************************************************************************)
\* largest guard width of a mesh (mxg, myg) and largest y_boundary_guards
MaxGuard == 2
\* interior points of a subdomain along x and along y (MXSUB, MYSUB)
SubSize == 2
\* backend I/O failures are injected at the first MaxFail data reads
MaxFail == 2

\* processor indices along x and along y (PE_XIND, PE_YIND)
PEs == {0, 1}

\* processors along x and along y (NXPE, NYPE)
NPE == Cardinality(PEs)

(***************************************************************************)
(* Arithmetic of C++ int.                                                  *)
(***************************************************************************)
\* a / b of C++ for b > 0: the quotient truncated towards zero
CDiv(a, b) == IF a >= 0 THEN a \div b ELSE -((-a) \div b)

\* a % b of C++ for b > 0: the remainder has the sign of a
CMod(a, b) == a - b * CDiv(a, b)

Origin == <<0, 0, 0>>

Uninit == << >>

(***************************************************************************)
(* The mesh (read-only for the loader).                                    *)
(***************************************************************************)
MkMesh(mxg, myg, pex, pey, nxp, nz, zp) ==
  [GlobalNx |-> NPE * SubSize + 2 * mxg,
   GlobalNy |-> NPE * SubSize + 2 * myg,
   LocalNx  |-> SubSize + 2 * mxg,
   LocalNy  |-> SubSize + 2 * myg,
   LocalNz  |-> nz,
   xstart   |-> mxg,
   xend     |-> mxg + SubSize - 1,
   ystart   |-> myg,
   yend     |-> myg + SubSize - 1,
   OffsetX  |-> pex * SubSize,
   OffsetY  |-> pey * SubSize,
   numberOfXPoints |-> nxp,
   zperiod  |-> zp]

\* meshes handed to a Field2D load
Meshes2D ==
  { MkMesh(mxg, myg, pex, pey, nxp, 1, 1) :
      mxg \in 0..MaxGuard, myg \in 0..MaxGuard,
      pex \in PEs, pey \in PEs, nxp \in {1, 2} }

\* meshes handed to a Field3D load: LocalNz points in z, zperiod periods
Meshes3D ==
  { MkMesh(mxg, myg, pex, pey, 1, nz, zp) :
      mxg \in 0..1, myg \in 0..1, pex \in PEs, pey \in PEs,
      nz \in {2, 3}, zp \in 0..2 }

(***************************************************************************)
(* The storage backend (DataFormat).  The file stores one variable for     *)
(* every name of Stored, identified by a tag and its stored extents; the   *)
(* name "missing" is stored nowhere.                                       *)
(***************************************************************************)
\* stored x extents: from one guard cell too few to 2*MaxGuard guard cells
FileNx == (NPE * SubSize - 2)..(NPE * SubSize + 2 * MaxGuard)

\* stored y extents: from no guard cells to MaxGuard more points
FileNy == (NPE * SubSize)..(NPE * SubSize + MaxGuard)

Missing == [id |-> "missing", dims |-> << >>]

Names2D == { [id |-> "f", dims |-> <<fx, fy>>] : fx \in FileNx, fy \in FileNy }

\* stored 3-D variables: with or without guard cells in x and in y, and a
\* z extent of 1 to 3 (DC only, DC and one mode, or three samples)
Names3D ==
  { [id |-> "F", dims |-> <<fx, fy, fz>>] :
      fx \in {NPE * SubSize, NPE * SubSize + 2},
      fy \in {NPE * SubSize, NPE * SubSize + 1}, fz \in 1..3 }

NamesOther ==
  { Missing, [id |-> "v", dims |-> <<1>>], [id |-> "v", dims |-> <<3>>],
    [id |-> "h", dims |-> <<1, 1, 1, 1>>] }

Stored == { n \in Names2D \cup Names3D \cup NamesOther : n.id # "missing" }

\* file->getSize(name): the stored extents, empty when the variable is absent
getSize(name) == IF name \in Stored THEN name.dims ELSE << >>

\* the value stored at global index (x, y, z) of a field variable
Datum(x, y, z) == <<100 * x + 10 * y + z + 1>>

\* the value of a stored one-element variable
ScalarDatum == <<7>>

\* file->read(dst, name, 1, ny) at origin (x, ys): the backend delivers the
\* run when the I/O does not fail and the run lies inside the variable
BackendRowOK(name, x, ys, ny, readno, failAt) ==
  /\ readno # failAt
  /\ x >= 0 /\ x < getSize(name)[1]
  /\ ys >= 0 /\ ys + ny <= getSize(name)[2]

(***************************************************************************)
(* Field2D / Field3D: nx*ny*nz cells in one contiguous array.              *)
(***************************************************************************)
\* a field with every cell equal to v (Field::operator=(BoutReal))
Fill(nx, ny, nz, v) ==
  [nx |-> nx, ny |-> ny, nz |-> nz, data |-> [i \in 0..(nx * ny * nz - 1) |-> v]]

\* var.allocate() on a fresh handle: the cells hold no value yet
Allocate(nx, ny, nz) == Fill(nx, ny, nz, Uninit)

\* var(x, y, z)
At(f, x, y, z) == f.data[(x * f.ny + y) * f.nz + z]

\* whether (x, y) is an index of the field
InField(f, x, y) == x >= 0 /\ x < f.nx /\ y >= 0 /\ y < f.ny

\* the cells start .. start+Len(vals)-1 of the array overwritten by vals;
\* cells outside the array are not cells of the field
WriteRun(f, start, vals) ==
  [f EXCEPT !.data = [i \in DOMAIN f.data |->
      IF i >= start /\ i < start + Len(vals) THEN vals[i - start + 1] ELSE f.data[i]]]

\* whether the run start .. start+n-1 leaves the array
RunOverflows(f, start, n) == start < 0 \/ start + n > f.nx * f.ny * f.nz

(***************************************************************************)
(* The state of one call while it runs: the handle, the cursor, the number *)
(* of data reads issued to the backend, the cursor positions set, whether  *)
(* an access left the handle's array, and the exception raised ("" none).  *)
(***************************************************************************)
St0(var, cur) ==
  [var |-> var, cursor |-> cur, reads |-> 0, origins |-> << >>, ub |-> FALSE,
   exc |-> ""]

\* file->setGlobalOrigin(x, y, z)
setGlobalOrigin(st, x, y, z) ==
  [st EXCEPT !.cursor = <<x, y, z>>, !.origins = Append(@, <<x, y, z>>)]

\* ASSERT1(condition): raises when the condition is false
ASSERT1(condition) == condition

(***************************************************************************)
(* getField: the read window.                                              *)
(***************************************************************************)
\* ghost region widths and their ASSERT1s
GuardWidths(m) ==
  LET dx == m.LocalNx - (m.xend - m.xstart + 1)
      dy == m.LocalNy - (m.yend - m.ystart + 1)
  IN  [mxg |-> CDiv(dx, 2), myg |-> CDiv(dy, 2),
       exc |-> IF ASSERT1(CMod(dx, 2) = 0) /\ ASSERT1(CMod(dy, 2) = 0)
               THEN "" ELSE "assert"]

\* YStart without the shift past the second target
YStart_NoShift(m, gyg, nyin) ==
  [exc |-> IF m.numberOfXPoints > 1 /\ ~ASSERT1(m.numberOfXPoints = 2)
           THEN "assert" ELSE "",
   ys |-> m.OffsetY]

\* index offset ys into the source array
YStart(m, gyg, nyin) ==
  IF m.numberOfXPoints > 1
  THEN IF ~ASSERT1(m.numberOfXPoints = 2)
       THEN [exc |-> "assert", ys |-> m.OffsetY]
       ELSE IF m.OffsetY >= nyin
            THEN [exc |-> "", ys |-> m.OffsetY + 2 * gyg]
            ELSE [exc |-> "", ys |-> m.OffsetY]
  ELSE [exc |-> "", ys |-> m.OffsetY]

\* grid_xguards of a stored x extent fx
GridXGuards(m, fx, mxg) == CDiv(fx - (m.GlobalNx - 2 * mxg), 2)

\* XGuards with the last branch reading as if the file held no guard cells
XGuards_ReadsOnNegative(m, fx, mxg) ==
  LET grid_xguards == GridXGuards(m, fx, mxg)
  IN  IF ~ASSERT1(CMod(fx - (m.GlobalNx - 2 * mxg), 2) = 0)
      THEN [exc |-> "assert", nx |-> -1, xd |-> -1]
      ELSE IF grid_xguards >= 0
      THEN [exc |-> IF ASSERT1(grid_xguards - mxg >= 0) THEN "" ELSE "assert",
            nx |-> m.LocalNx, xd |-> grid_xguards - mxg]
      ELSE [exc |-> "", nx |-> m.LocalNx - 2 * mxg, xd |-> mxg]

\* "Check if field dimensions are correct. x-direction"
XGuards(m, fx, mxg) ==
  LET grid_xguards == GridXGuards(m, fx, mxg)
  IN  IF ~ASSERT1(CMod(fx - (m.GlobalNx - 2 * mxg), 2) = 0)
      THEN [exc |-> "assert", nx |-> -1, xd |-> -1]
      ELSE IF grid_xguards >= 0
      THEN [exc |-> IF ASSERT1(grid_xguards - mxg >= 0) THEN "" ELSE "assert",
            nx |-> m.LocalNx, xd |-> grid_xguards - mxg]
      ELSE IF grid_xguards = 0
      THEN [exc |-> "", nx |-> m.LocalNx - 2 * mxg, xd |-> mxg]
      ELSE [exc |-> "xguards", nx |-> -1, xd |-> -1]

\* "Check if field dimensions are correct. y-direction"
YGuards(m, fy, myg, gyg) ==
  IF gyg > 0
  THEN [exc |-> IF /\ ASSERT1(fy = m.GlobalNy - 2 * myg + gyg)
                   /\ ASSERT1(gyg - myg >= 0)
                THEN "" ELSE "assert",
        ny |-> m.LocalNy, yd |-> gyg - myg]
  ELSE IF gyg = 0
  THEN [exc |-> IF ASSERT1(fy = m.GlobalNy - 2 * myg) THEN "" ELSE "assert",
        ny |-> m.LocalNy - 2 * myg, yd |-> myg]
  ELSE [exc |-> "yguards", ny |-> -1, yd |-> -1]

\* the first exception of a sequence of checks, "" when none raised
FirstExc(excs) ==
  IF \E i \in DOMAIN excs : excs[i] # ""
  THEN excs[CHOOSE i \in DOMAIN excs :
              excs[i] # "" /\ \A j \in 1..(i - 1) : excs[j] = ""]
  ELSE ""

\* the window of getField for a stored variable of extents fd, in the order
\* the checks are made
Window(m, fd, gyg, nyin) ==
  LET g  == GuardWidths(m)
      y0 == YStart(m, gyg, nyin)
      xg == XGuards(m, fd[1], g.mxg)
      yg == YGuards(m, fd[2], g.myg, gyg)
  IN  [exc |-> FirstExc(<<g.exc, y0.exc, xg.exc, yg.exc>>),
       xs |-> m.OffsetX, ys |-> y0.ys, xd |-> xg.xd, yd |-> yg.yd,
       nx |-> xg.nx, ny |-> yg.ny]

(***************************************************************************)
(* readField(Field2D&): one backend read per x row.                        *)
(***************************************************************************)
\* the values of the row x delivered by file->read(.., name, 1, ny)
RowValues(x, ys, ny) == [j \in 1..ny |-> Datum(x, ys + j - 1, 0)]

RECURSIVE Rows2D(_, _, _, _, _, _)
\* rows k .. w.nx-1 of the loop; chk: the build checks field indices
Rows2D(st, k, name, w, failAt, chk) ==
  IF k >= w.nx
  THEN setGlobalOrigin(st, 0, 0, 0)
  ELSE
    LET x     == w.xs + k
        s1    == setGlobalOrigin(st, x, w.ys, 0)
        inIdx == InField(st.var, k + w.xd, w.yd)
        start == (k + w.xd) * st.var.ny + w.yd
        over  == RunOverflows(st.var, start, w.ny)
        s2    == [s1 EXCEPT !.ub = @ \/ ~inIdx \/ over]
    IN  IF ~inIdx /\ chk
        THEN [s2 EXCEPT !.exc = "bounds"]
        ELSE IF ~BackendRowOK(name, x, w.ys, w.ny, st.reads + 1, failAt)
        THEN [s2 EXCEPT !.reads = @ + 1, !.exc = "fetch"]
        ELSE Rows2D([s2 EXCEPT !.reads = @ + 1,
                               !.var = WriteRun(@, start, RowValues(x, w.ys, w.ny))],
                    k + 1, name, w, failAt, chk)

readField2D(st, name, w, failAt, chk) == Rows2D(st, 0, name, w, failAt, chk)

(***************************************************************************)
(* getField: extrapolation into the guard cells.                           *)
(***************************************************************************)
\* the x, y, z of the array index i
XOf(f, i) == i \div (f.ny * f.nz)
YOf(f, i) == (i \div f.nz) % f.ny
ZOf(f, i) == i % f.nz

\* "Upper and lower X boundaries copied from nearest point"
ExtrapolateX(f, m) ==
  [f EXCEPT !.data = [i \in DOMAIN f.data |->
      IF XOf(f, i) < m.xstart THEN At(f, m.xstart, YOf(f, i), ZOf(f, i))
      ELSE IF XOf(f, i) > m.xend THEN At(f, m.xend, YOf(f, i), ZOf(f, i))
      ELSE f.data[i]]]

\* "Upper and lower Y boundaries copied from nearest point"
ExtrapolateY(f, m) ==
  [f EXCEPT !.data = [i \in DOMAIN f.data |->
      IF YOf(f, i) < m.ystart THEN At(f, XOf(f, i), m.ystart, ZOf(f, i))
      ELSE IF YOf(f, i) > m.yend THEN At(f, XOf(f, i), m.yend, ZOf(f, i))
      ELSE f.data[i]]]

\* the two extrapolation steps after a successful readField
Extrapolate(f, m, fd, mxg, gyg) ==
  LET fx == IF fd[1] = m.GlobalNx - 2 * mxg THEN ExtrapolateX(f, m) ELSE f
  IN  IF gyg = 0 THEN ExtrapolateY(fx, m) ELSE fx

(***************************************************************************)
(* The 3-D readers.  A row is the z run of one (x, y).                     *)
(***************************************************************************)
\* file->read(dst, name, 1, 1, nz) at origin (jx, jy)
BackendZRowOK(name, jx, jy, readno, failAt) ==
  /\ readno # failAt
  /\ jx >= 0 /\ jx < getSize(name)[1]
  /\ jy >= 0 /\ jy < getSize(name)[2]

\* the raw z run stored at (jx, jy): n values
ZValues(jx, jy, n) == [j \in 1..n |-> Datum(jx, jy, j - 1)]

\* "Check the arguments make sense"
BadArgs(w) ==
  w.ys < 0 \/ w.yd < 0 \/ w.ny < 0 \/ w.xs < 0 \/ w.xd < 0 \/ w.nx < 0

RECURSIVE RowsReal(_, _, _, _, _, _)
\* rows k .. nx*ny-1 of readgrid_3dvar_real; .exc = "false" is `return false`
RowsReal(st, k, name, w, failAt, chk) ==
  IF k >= w.nx * w.ny
  THEN setGlobalOrigin(st, 0, 0, 0)
  ELSE
    LET jx    == w.xs + (k \div w.ny)
        jy    == w.ys + (k % w.ny)
        xi    == jx - w.xs + w.xd
        yi    == jy - w.ys + w.yd
        nz    == getSize(name)[3]
        s1    == setGlobalOrigin(st, jx, jy, 0)
        inIdx == InField(st.var, xi, yi)
        start == (xi * st.var.ny + yi) * st.var.nz
        over  == RunOverflows(st.var, start, nz)
        s2    == [s1 EXCEPT !.ub = @ \/ ~inIdx \/ over]
    IN  IF ~inIdx /\ chk
        THEN [s2 EXCEPT !.exc = "bounds"]
        ELSE IF ~BackendZRowOK(name, jx, jy, st.reads + 1, failAt)
        THEN [s2 EXCEPT !.reads = @ + 1, !.exc = "false"]
        ELSE RowsReal([s2 EXCEPT !.reads = @ + 1,
                                 !.var = WriteRun(@, start, ZValues(jx, jy, nz))],
                      k + 1, name, w, failAt, chk)

readgrid_3dvar_real(st, name, w, failAt, chk) ==
  IF BadArgs(w) THEN [st EXCEPT !.exc = "false"]
  ELSE IF Len(getSize(name)) # 3 THEN [st EXCEPT !.exc = "false"]
  ELSE RowsReal(st, 0, name, w, failAt, chk)

\* zdata[j] of C++ for the raw run zdata; an index outside the array reads
\* no value of the run
ZData(zdata, j) == IF j >= 0 /\ j < Len(zdata) THEN zdata[j + 1] ELSE Uninit

\* whether the mode loop indexes zdata outside 0 .. size[2]-1
ModeIndexBad(n, ncz, zperiod, maxmode) ==
  \E i \in 1..CDiv(ncz, 2) :
     /\ i * zperiod <= maxmode
     /\ (i * zperiod * 2 - 1 < 0 \/ i * zperiod * 2 >= n)

\* fdata: entry 0 the DC component, entry i the pair of mode i*zperiod or zero
Spectrum(zdata, ncz, zperiod, maxmode) ==
  [i \in 0..CDiv(ncz, 2) |->
     IF i = 0 THEN <<ZData(zdata, 0), <<0>>>>
     ELSE IF i * zperiod <= maxmode
          THEN <<ZData(zdata, i * zperiod * 2 - 1), ZData(zdata, i * zperiod * 2)>>
          ELSE <<<<0>>, <<0>>>>]

RECURSIVE FlatSpectrum(_, _)
\* the entries i .. of a spectrum as one sequence of numbers
FlatSpectrum(fdata, i) ==
  IF i \notin DOMAIN fdata THEN << >>
  ELSE fdata[i][1] \o fdata[i][2] \o FlatSpectrum(fdata, i + 1)

\* irfft(fdata, ncz, dst): sample z of the inverse transform of fdata, kept
\* as the pair of z and the spectrum it is the transform of
irfft(fdata, ncz) == [z \in 1..ncz |-> <<z - 1>> \o FlatSpectrum(fdata, 0)]

RECURSIVE RowsFFT(_, _, _, _, _, _, _)
\* rows k .. nx*ny-1 of readgrid_3dvar_fft
RowsFFT(st, k, name, w, m, failAt, chk) ==
  IF k >= w.nx * w.ny
  THEN setGlobalOrigin(st, 0, 0, 0)
  ELSE
    LET jx      == w.xs + (k \div w.ny)
        jy      == w.ys + (k % w.ny)
        xi      == jx - w.xs + w.xd
        yi      == jy - w.ys + w.yd
        n       == getSize(name)[3]
        maxmode == CDiv(n - 1, 2)
        ncz     == m.LocalNz
        s1      == setGlobalOrigin(st, jx, jy, 0)
        inIdx   == InField(st.var, xi, yi)
        start   == (xi * st.var.ny + yi) * st.var.nz
        over    == RunOverflows(st.var, start, ncz)
        badz    == ModeIndexBad(n, ncz, m.zperiod, maxmode)
        fdata   == Spectrum(ZValues(jx, jy, n), ncz, m.zperiod, maxmode)
    IN  IF ~BackendZRowOK(name, jx, jy, st.reads + 1, failAt)
        THEN [s1 EXCEPT !.reads = @ + 1, !.exc = "false"]
        ELSE IF ~inIdx /\ chk
        THEN [s1 EXCEPT !.reads = @ + 1, !.ub = TRUE, !.exc = "bounds"]
        ELSE RowsFFT([s1 EXCEPT !.reads = @ + 1,
                                !.ub = @ \/ ~inIdx \/ over \/ badz,
                                !.var = WriteRun(@, start, irfft(fdata, ncz))],
                     k + 1, name, w, m, failAt, chk)

\* chk: on an undefined operation the build stops the call (a checked index
\* raises, an integer division by zero traps) instead of carrying on
readgrid_3dvar_fft(st, name, w, m, failAt, chk) ==
  IF BadArgs(w) THEN [st EXCEPT !.exc = "false"]
  ELSE IF Len(getSize(name)) # 3 THEN [st EXCEPT !.exc = "false"]
  ELSE
    LET maxmode == CDiv(getSize(name)[3] - 1, 2)
        divzero == ~(m.zperiod > maxmode) /\ m.zperiod = 0
        s1      == [st EXCEPT !.ub = @ \/ divzero]
    IN  IF divzero /\ chk THEN [s1 EXCEPT !.exc = "sigfpe"]
        ELSE RowsFFT(s1, 0, name, w, m, failAt, chk)

\* readField(Field3D&).  size[2] of a size with two entries reads past the
\* vector: the comparison with LocalNz then goes either way (alt)
readField3D(st, name, w, m, size, hasnz, failAt, chk, alt) ==
  IF hasnz
  THEN LET short == Len(size) < 3
           s1    == [st EXCEPT !.ub = @ \/ short]
           differ == IF short THEN alt ELSE size[3] # m.LocalNz
       IN  IF differ THEN [s1 EXCEPT !.exc = "zsize"]
           ELSE LET r == readgrid_3dvar_real(s1, name, w, failAt, chk)
                IN  IF r.exc = "false" THEN [r EXCEPT !.exc = "read3d"] ELSE r
  ELSE LET r == readgrid_3dvar_fft(st, name, w, m, failAt, chk)
       IN  IF r.exc = "false" THEN [r EXCEPT !.exc = "read3d"] ELSE r

(***************************************************************************)
(* getField.                                                               *)
(***************************************************************************)
\* the outcome of a call: ret is "true", "false", "throw" (an exception left
\* the call) or "crash"; out is the scalar or vector output of the getters
Result(ret, st, win, out) ==
  [ret |-> ret, exc |-> st.exc, var |-> st.var, cursor |-> st.cursor,
   reads |-> st.reads, origins |-> st.origins, ub |-> st.ub, win |-> win,
   out |-> out]

Throw(st, exc) == Result("throw", [st EXCEPT !.exc = exc], << >>, << >>)

\* NotFound without the assignment of the default
NotFound_KeepsHandle(st, def) == Result("false", st, << >>, << >>)

\* "var = def; return false"
NotFound(st, def) ==
  Result("false",
         [st EXCEPT !.var = Fill(st.var.nx, st.var.ny, st.var.nz, <<def>>)],
         << >>, << >>)

\* Broadcast without the check of the number of elements
Broadcast_AcceptsAny1D(st, size, failAt) ==
  IF failAt = 1 THEN Throw([st EXCEPT !.reads = 1], "read0d")
  ELSE Result("true",
              [st EXCEPT !.reads = 1,
                         !.var = Fill(st.var.nx, st.var.ny, st.var.nz, ScalarDatum)],
              << >>, << >>)

\* case 1 of the switch: "0 or 1 dimension"
Broadcast(st, size, failAt) ==
  IF size[1] # 1 THEN Throw(st, "1d")
  ELSE IF failAt = 1 THEN Throw([st EXCEPT !.reads = 1], "read0d")
  ELSE Result("true",
              [st EXCEPT !.reads = 1,
                         !.var = Fill(st.var.nx, st.var.ny, st.var.nz, ScalarDatum)],
              << >>, << >>)

\* ReadWindow going on to the extrapolation whatever readField did
ReadWindow_ExtrapolatesAfterFailure(st, is3D, m, name, size, failAt, chk, alt, gyg, nyin, hasnz) ==
  LET w == Window(m, getSize(name), gyg, nyin)
  IN  IF w.exc # "" THEN Throw(st, w.exc)
      ELSE
        LET r == IF is3D
                 THEN readField3D(st, name, w, m, size, hasnz, failAt, chk, alt)
                 ELSE readField2D(st, name, w, failAt, chk)
        IN  Result("true",
                   [r EXCEPT !.var = Extrapolate(@, m, getSize(name),
                                                 GuardWidths(m).mxg, gyg)],
                   <<w>>, << >>)

\* the part of getField after the switch
ReadWindow(st, is3D, m, name, size, failAt, chk, alt, gyg, nyin, hasnz) ==
  LET w == Window(m, getSize(name), gyg, nyin)
  IN  IF w.exc # "" THEN Throw(st, w.exc)
      ELSE
        LET r == IF is3D
                 THEN readField3D(st, name, w, m, size, hasnz, failAt, chk, alt)
                 ELSE readField2D(st, name, w, failAt, chk)
        IN  IF r.exc = "sigfpe" THEN Result("crash", r, <<w>>, << >>)
            ELSE IF r.exc # "" THEN Result("throw", r, <<w>>, << >>)
            ELSE Result("true",
                        [r EXCEPT !.var = Extrapolate(@, m, getSize(name),
                                                      GuardWidths(m).mxg, gyg)],
                        <<w>>, << >>)

\* getField<T>(m, var, name, def) on a fresh handle, T = Field3D when is3D
getField(is3D, m, name, def, failAt, chk, alt, v, cur, gyg, nyin, hasnz) ==
  LET st0  == St0(Allocate(m.LocalNx, m.LocalNy, IF is3D THEN m.LocalNz ELSE 1), cur)
      size == getSize(name)
  IN  IF ~v THEN Throw(st0, "invalid")
      ELSE IF Len(size) = 0 THEN NotFound(st0, def)
      ELSE IF Len(size) = 1 THEN Broadcast(st0, size, failAt)
      ELSE IF Len(size) = 2
      THEN ReadWindow(st0, is3D, m, name, size, failAt, chk, alt, gyg, nyin, hasnz)
      ELSE IF Len(size) = 3
      THEN IF ~is3D THEN NotFound(st0, def)
           ELSE ReadWindow(st0, is3D, m, name, size, failAt, chk, alt, gyg, nyin, hasnz)
      ELSE NotFound(st0, def)

\* the outcomes of getField: one, unless the call does something undefined,
\* and then one for every way the build may resolve it
getFieldOutcomes(is3D, m, name, def, failAt, v, cur, gyg, nyin, hasnz) ==
  LET o == getField(is3D, m, name, def, failAt, FALSE, FALSE, v, cur, gyg, nyin, hasnz)
  IN  IF ~o.ub THEN {o}
      ELSE { getField(is3D, m, name, def, failAt, chk, alt, v, cur, gyg, nyin, hasnz) :
               chk \in BOOLEAN, alt \in BOOLEAN }

(***************************************************************************)
(* Scalars, attributes and 1-D sequences.                                  *)
(***************************************************************************)
\* the scalar stored under a name: << >> when absent, else <<value>>
ScalarLookup(name, fyg, fnyin) ==
  IF name = "y_boundary_guards" THEN fyg
  ELSE IF name = "ny_inner" THEN fnyin
  ELSE IF name = "nx" THEN <<NPE * SubSize>>
  ELSE << >>

\* the attribute stored under a name
AttributeLookup(name) == IF name = "title" THEN <<"grid">> ELSE << >>

ScalarNames == {"y_boundary_guards", "ny_inner", "nx", "absent"}

AttributeNames == {"title", "absent"}

\* getScalar raising when the value is not found
getScalar_ThrowsWhenAbsent(name, val0, failAt, v, cur, fyg, fnyin) ==
  LET st0     == St0(Uninit, cur)
      found   == ScalarLookup(name, fyg, fnyin)
      success == found # << >> /\ failAt # 1
  IN  IF ~v \/ ~success
      THEN Result("throw", [st0 EXCEPT !.exc = "invalid"], << >>, <<val0>>)
      ELSE Result("true", [st0 EXCEPT !.reads = 1], << >>, found)

\* get(Mesh*, int&, name) and get(Mesh*, BoutReal&, name); val0 is the value
\* the output holds before the call.  A failed file->read leaves it alone.
getScalar(name, val0, failAt, v, cur, fyg, fnyin) ==
  LET st0     == St0(Uninit, cur)
      found   == ScalarLookup(name, fyg, fnyin)
      success == found # << >> /\ failAt # 1
  IN  IF ~v THEN Result("throw", [st0 EXCEPT !.exc = "invalid"], << >>, <<val0>>)
      ELSE IF success THEN Result("true", [st0 EXCEPT !.reads = 1], << >>, found)
      ELSE Result("false", [st0 EXCEPT !.reads = 1], << >>, <<val0>>)

\* get(Mesh*, std::string&, name)
getString(name, val0, failAt, v, cur) ==
  LET st0     == St0(Uninit, cur)
      found   == AttributeLookup(name)
      success == found # << >> /\ failAt # 1
  IN  IF ~v THEN Result("throw", [st0 EXCEPT !.exc = "invalid"], << >>, <<val0>>)
      ELSE IF success THEN Result("true", st0, << >>, found)
      ELSE Result("false", st0, << >>, <<"">>)

\* file->read(&var[0], name, len) at origin (offset): delivered when the I/O
\* does not fail and the run lies inside a stored 1-D variable
BackendVectorOK(name, len, offset, failAt) ==
  /\ failAt # 1
  /\ Len(getSize(name)) = 1
  /\ offset >= 0 /\ offset + len <= getSize(name)[1]

\* get(Mesh*, std::vector<int>&, ...) and get(Mesh*, std::vector<BoutReal>&, ...)
\* with a vector of len elements
getVector(name, len, offset, failAt, v, cur) ==
  LET st0 == St0(Uninit, cur)
      old == [j \in 1..len |-> Uninit]
      s1  == setGlobalOrigin(st0, offset, 0, 0)
  IN  IF ~v THEN Result("false", st0, << >>, old)
      ELSE IF ~BackendVectorOK(name, len, offset, failAt)
      THEN Result("false", [s1 EXCEPT !.reads = 1], << >>, old)
      ELSE Result("true", setGlobalOrigin([s1 EXCEPT !.reads = 1], 0, 0, 0), << >>,
                  [j \in 1..len |-> Datum(offset + j - 1, 0, 0)])

(***************************************************************************)
(* The state machine.                                                      *)
(***************************************************************************)
NoMesh == MkMesh(0, 0, 0, 0, 1, 1, 1)

NoCall == [op |-> "none", is3D |-> FALSE, m |-> NoMesh, name |-> Missing,
           sname |-> "", def |-> 0, failAt |-> 0, val0 |-> 0, len |-> 0,
           offset |-> 0]

NoRes == Result("none", St0(Uninit, Origin), << >>, << >>)

FileGuards == { << >> } \cup { <<g>> : g \in 0..MaxGuard }

FileNyInners == { << >>, <<SubSize>> }

\* the constructor: "Set default global origin", then grid_yguards and
\* ny_inner are read from the file, zero when not found
Constructed(fyg, fnyin, hasnz) ==
  /\ valid' = TRUE
  /\ cursor' = Origin
  /\ fileYGuards' = fyg
  /\ fileNyInner' = fnyin
  /\ fileHasNz' = hasnz
  /\ grid_yguards' = (IF ScalarLookup("y_boundary_guards", fyg, fnyin) = << >>
                      THEN 0 ELSE fyg[1])
  /\ ny_inner' = (IF ScalarLookup("ny_inner", fyg, fnyin) = << >>
                  THEN 0 ELSE fnyin[1])
  /\ pc' = "idle"
  /\ call' = NoCall
  /\ res' = NoRes

\* the state a constructor leaves, for a file with the given contents
Constructs(fygs, fnyins, hasnzs) ==
  /\ valid = TRUE
  /\ cursor = Origin
  /\ fileYGuards \in fygs
  /\ fileNyInner \in fnyins
  /\ fileHasNz \in hasnzs
  /\ grid_yguards = (IF fileYGuards = << >> THEN 0 ELSE fileYGuards[1])
  /\ ny_inner = (IF fileNyInner = << >> THEN 0 ELSE fileNyInner[1])
  /\ pc = "idle"
  /\ call = NoCall
  /\ res = NoRes

\* 2-D fields, scalars and sequences never consult "nz": files without it
Init == Constructs(FileGuards, FileNyInners, {FALSE})

\* 3-D fields: files with and without "nz"; the meshes have one X-point
Init3D == Constructs(FileGuards, {<< >>}, BOOLEAN)

\* a call ends: its outcome and the cursor it leaves are recorded
Finish(c, o) ==
  /\ pc' = "done"
  /\ call' = c
  /\ res' = o
  /\ cursor' = o.cursor
  /\ UNCHANGED <<valid, fileYGuards, fileNyInner, fileHasNz, grid_yguards, ny_inner>>

Defaults == {9}

FieldNames == Names2D \cup Names3D \cup NamesOther

GetField2D ==
  /\ pc = "idle"
  /\ \E m \in Meshes2D, name \in FieldNames, def \in Defaults, failAt \in 0..MaxFail :
       \E o \in getFieldOutcomes(FALSE, m, name, def, failAt, valid, cursor,
                                 grid_yguards, ny_inner, fileHasNz) :
          Finish([NoCall EXCEPT !.op = "getField", !.m = m, !.name = name,
                                !.def = def, !.failAt = failAt], o)

GetField3D ==
  /\ pc = "idle"
  /\ \E m \in Meshes3D, name \in FieldNames, def \in Defaults, failAt \in 0..MaxFail :
       \E o \in getFieldOutcomes(TRUE, m, name, def, failAt, valid, cursor,
                                 grid_yguards, ny_inner, fileHasNz) :
          Finish([NoCall EXCEPT !.op = "getField", !.is3D = TRUE, !.m = m,
                                !.name = name, !.def = def, !.failAt = failAt], o)

GetInt ==
  /\ pc = "idle"
  /\ \E name \in ScalarNames, val0 \in {0, 5}, failAt \in 0..1 :
       Finish([NoCall EXCEPT !.op = "getInt", !.sname = name, !.val0 = val0,
                             !.failAt = failAt],
              getScalar(name, val0, failAt, valid, cursor, fileYGuards, fileNyInner))

GetReal ==
  /\ pc = "idle"
  /\ \E name \in ScalarNames, val0 \in {0, 5}, failAt \in 0..1 :
       Finish([NoCall EXCEPT !.op = "getReal", !.sname = name, !.val0 = val0,
                             !.failAt = failAt],
              getScalar(name, val0, failAt, valid, cursor, fileYGuards, fileNyInner))

GetString ==
  /\ pc = "idle"
  /\ \E name \in AttributeNames, failAt \in 0..1 :
       Finish([NoCall EXCEPT !.op = "getString", !.sname = name, !.failAt = failAt],
              getString(name, "old", failAt, valid, cursor))

VectorNames == { n \in NamesOther : Len(n.dims) <= 1 }

GetVectorInt ==
  /\ pc = "idle"
  /\ \E name \in VectorNames, len \in 1..2, offset \in 0..2, failAt \in 0..1 :
       Finish([NoCall EXCEPT !.op = "getVectorInt", !.name = name, !.len = len,
                             !.offset = offset, !.failAt = failAt],
              getVector(name, len, offset, failAt, valid, cursor))

GetVectorReal ==
  /\ pc = "idle"
  /\ \E name \in VectorNames, len \in 1..2, offset \in 0..2, failAt \in 0..1 :
       Finish([NoCall EXCEPT !.op = "getVectorReal", !.name = name, !.len = len,
                             !.offset = offset, !.failAt = failAt],
              getVector(name, len, offset, failAt, valid, cursor))

\* the backend loses the file (is_valid() turns false)
Invalidate ==
  /\ pc = "idle"
  /\ valid
  /\ valid' = FALSE
  /\ UNCHANGED <<cursor, fileYGuards, fileNyInner, fileHasNz, grid_yguards,
                 ny_inner, pc, call, res>>

\* the caller is done with the outcome: the GridFile is destroyed and the
\* next one constructed on the same file
Reopen ==
  /\ pc = "done"
  /\ Constructed(fileYGuards, fileNyInner, fileHasNz)

Next ==
  \/ GetField2D
  \/ GetInt
  \/ GetReal
  \/ GetString
  \/ GetVectorInt
  \/ GetVectorReal
  \/ Invalidate
  \/ Reopen

Spec == Init /\ [][Next]_vars

Next3D ==
  \/ GetField3D
  \/ Invalidate
  \/ Reopen

Spec3D == Init3D /\ [][Next3D]_vars

(***************************************************************************)
(* Properties.                                                             *)
(***************************************************************************)
\* a getField call has just ended
FieldDone == pc = "done" /\ call.op = "getField"

\* every cell of the handle equals v
AllCells(f, v) == \A i \in DOMAIN f.data : f.data[i] = v

\* the guard widths of the mesh of the last call
Mxg == GuardWidths(call.m).mxg
Myg == GuardWidths(call.m).myg

\* stored x extent minus the x extent of the mesh without its guard cells
XDiff == getSize(call.name)[1] - (call.m.GlobalNx - 2 * Mxg)

\* the file is consistent in y with a file without y-guard cells
YPlain == grid_yguards = 0 /\ getSize(call.name)[2] = call.m.GlobalNy - 2 * Myg

\* C1: for every 2-D field whose stored x extent is GlobalNx - 2*mxg (read
\* from a valid file without I/O failure, the y extent being consistent),
\* getField returns true and afterwards field(x,y) = field(xstart,y) for
\* x < xstart and field(x,y) = field(xend,y) for x > xend, for all y.
C1_XGuardsExtrapolated ==
  (/\ FieldDone /\ ~call.is3D /\ valid /\ call.failAt = 0
   /\ Len(getSize(call.name)) = 2 /\ XDiff = 0 /\ YPlain)
  => /\ res.ret = "true"
     /\ \A x \in 0..(call.m.LocalNx - 1), y \in 0..(call.m.LocalNy - 1) :
          /\ x < call.m.xstart => At(res.var, x, y, 0) = At(res.var, call.m.xstart, y, 0)
          /\ x > call.m.xend => At(res.var, x, y, 0) = At(res.var, call.m.xend, y, 0)

\* the cases in which getField declines the variable
Declined ==
  \/ Len(getSize(call.name)) = 0
  \/ Len(getSize(call.name)) = 3 /\ ~call.is3D
  \/ Len(getSize(call.name)) > 3

\* C2: getField returns false exactly when the variable is absent, is 3-D
\* for a 2-D handle or has more than 3 dimensions; then every cell of the
\* handle equals the default, no exception was raised and no data read was
\* issued to the backend.
C2_NotFoundLeavesDefault ==
  FieldDone =>
    /\ res.ret = "false" <=> (valid /\ Declined)
    /\ res.ret = "false" =>
         /\ AllCells(res.var, <<call.def>>)
         /\ res.exc = ""
         /\ res.reads = 0

C2_Witness ==
  FieldDone /\ res.ret = "false" /\ Len(getSize(call.name)) = 3 /\ ~call.is3D

\* the x-guard count of the file is an integer that is 0 or at least mxg
XGuardsGood == XDiff % 2 = 0 /\ (XDiff = 0 \/ XDiff \div 2 >= Mxg)

\* C3: for a stored 2-D or 3-D variable that getField goes on to load, data
\* is read only when the x-guard count g = XDiff/2 is an integer that is 0
\* or >= mxg; for every other stored x extent getField raises and the
\* handle holds no file data.
C3_XGuardCountChecked ==
  (/\ FieldDone /\ valid
   /\ Len(getSize(call.name)) \in {2, 3} /\ ~Declined)
  => /\ res.reads > 0 => XGuardsGood
     /\ ~XGuardsGood => /\ res.ret = "throw"
                        /\ res.reads = 0
                        /\ AllCells(res.var, Uninit)

C3_Witness ==
  /\ FieldDone /\ valid /\ Len(getSize(call.name)) = 2
  /\ XDiff = 2 /\ Mxg = 2 /\ res.ret = "throw"

\* the y read start the claim states
ExpectedYs(m) ==
  IF m.numberOfXPoints = 2 /\ m.OffsetY >= ny_inner
  THEN m.OffsetY + 2 * grid_yguards
  ELSE m.OffsetY

\* C4: the y index of the read window, and of the first cursor position
\* getField sets, is OffsetY + 2*grid_yguards when the mesh has two X-points
\* and OffsetY >= ny_inner, and OffsetY otherwise; two subdomains on either
\* side of the branch cut differ in it by their OffsetY difference plus
\* 2*grid_yguards.
C4_YReadStart ==
  /\ (FieldDone /\ res.win # << >>) =>
        /\ res.win[1].ys = ExpectedYs(call.m)
        /\ res.origins # << >>
        /\ res.origins[1] = <<call.m.OffsetX, ExpectedYs(call.m), 0>>
  /\ pc = "idle" => \A m1 \in Meshes2D, m2 \in Meshes2D :
        (/\ m1.numberOfXPoints = 2 /\ m2.numberOfXPoints = 2
         /\ m1.OffsetY < ny_inner /\ m2.OffsetY >= ny_inner)
        => YStart(m2, grid_yguards, ny_inner).ys - YStart(m1, grid_yguards, ny_inner).ys
             = m2.OffsetY - m1.OffsetY + 2 * grid_yguards

C4_Witness ==
  /\ FieldDone /\ res.win # << >>
  /\ call.m.numberOfXPoints = 2 /\ ny_inner > 0 /\ call.m.OffsetY >= ny_inner
  /\ grid_yguards > 0
  /\ res.origins[1][2] = call.m.OffsetY + 2 * grid_yguards

VectorDone == pc = "done" /\ call.op \in {"getVectorInt", "getVectorReal"}

\* C5: getVector never raises, and in every outcome the cursor is back at
\* the origin when the call returns.
C5_VectorCursorReset ==
  VectorDone => res.ret \in {"true", "false"} /\ cursor = Origin

\* C6: every multi-row field read leaves the cursor at the origin whenever
\* it stops, also when a row read fails: after getField the cursor is at the
\* origin (calls that leave the handle's array aside).
C6_FieldCursorReset ==
  (FieldDone /\ ~res.ub) => cursor = Origin

ScalarDone == pc = "done" /\ call.op \in {"getInt", "getReal", "getString"}

\* C7 as stated: getScalar never raises, whatever the state of the backend.
C7_ScalarNeverRaises ==
  ScalarDone => res.ret \in {"true", "false"}

\* the lookup of the scalar or attribute of the last call fails
LookupFails ==
  \/ call.failAt = 1
  \/ call.op = "getString" /\ AttributeLookup(call.sname) = << >>
  \/ call.op # "getString" /\ ScalarLookup(call.sname, fileYGuards, fileNyInner) = << >>

\* C7 as amended: while the file is valid getScalar never raises and
\* reports a failed lookup by returning false; on an invalid file it raises.
C7_ScalarRaisesOnlyWhenInvalid ==
  ScalarDone =>
    /\ valid => /\ res.ret \in {"true", "false"}
                /\ res.ret = "false" <=> LookupFails
    /\ ~valid => res.ret = "throw"

C7_Witness ==
  ScalarDone /\ valid /\ call.op = "getInt" /\ call.sname = "absent"
  /\ res.ret = "false"

\* the mesh and the file agree and hold no guard cells; the file is read
\* without I/O failure
PlainLoad ==
  /\ valid /\ call.failAt = 0
  /\ Mxg = 0 /\ Myg = 0 /\ XDiff = 0 /\ YPlain
  /\ call.m.zperiod >= 1

\* C8: getField into a Field3D returns true with the handle filled when the
\* stored variable is 0-D, 2-D or 3-D (of the mesh's z length when the file
\* has "nz"); a stored 2-D variable is read without a fatal error, whether
\* or not the file has "nz".
C8_Field3DAcceptsLowerDims ==
  (/\ FieldDone /\ call.is3D /\ valid /\ call.failAt = 0
   /\ \/ getSize(call.name) = <<1>>
      \/ Len(getSize(call.name)) = 2 /\ PlainLoad
      \/ /\ Len(getSize(call.name)) = 3 /\ PlainLoad
         /\ fileHasNz => getSize(call.name)[3] = call.m.LocalNz)
  => /\ res.ret = "true"
     /\ \A i \in DOMAIN res.var.data : res.var.data[i] # Uninit

\* C9: when an integer scalar is not found, get(int) returns false and the
\* output is zero, whatever it held before.
C9_IntZeroWhenNotFound ==
  (pc = "done" /\ call.op = "getInt" /\ res.ret = "false") => res.out = <<0>>

\* C10: for a stored variable of one dimension, getField broadcasts the
\* value to every cell and returns true if it has exactly one element (the
\* read of the value failing is an I/O failure, and raises); with any other
\* number of elements getField raises; it never returns false.
C10_OneDimensional ==
  (FieldDone /\ valid /\ Len(getSize(call.name)) = 1)
  => /\ res.ret # "false"
     /\ (getSize(call.name)[1] = 1 /\ call.failAt # 1)
          => res.ret = "true" /\ AllCells(res.var, ScalarDatum)
     /\ (getSize(call.name)[1] = 1 /\ call.failAt = 1)
          => res.ret = "throw" /\ res.exc = "read0d"
     /\ getSize(call.name)[1] # 1 => res.ret = "throw" /\ res.exc = "1d"

C10_Witness ==
  /\ FieldDone /\ valid /\ getSize(call.name) = <<1>>
  /\ res.ret = "true" /\ AllCells(res.var, ScalarDatum)

\* a Field3D load has just ended that reached readField on a file with "nz"
RealSpaceDone ==
  FieldDone /\ call.is3D /\ valid /\ fileHasNz /\ res.win # << >>

\* the cell of the handle that row (jx, jy) of the window w is copied to
\* holds the stored sample at every z
RowCopied(f, w, jx, jy) ==
  \A z \in 0..(f.nz - 1) :
     At(f, jx - w.xs + w.xd, jy - w.ys + w.yd, z) = Datum(jx, jy, z)

\* C11: on the real-space path the reader first validates that the stored
\* variable has exactly 3 dimensions (a variable of another dimensionality
\* is rejected by that validation, its z-length never examined) and then
\* that the stored z-length equals LocalNz; a mismatch raises before any
\* row is read, and otherwise every row of the window of a completed load
\* holds the stored samples.
C11_RealSpaceValidatesThenCopies ==
  RealSpaceDone =>
    /\ Len(getSize(call.name)) # 3 =>
         /\ ~res.ub
         /\ res.ret = "throw" /\ res.exc = "read3d" /\ res.reads = 0
    /\ (Len(getSize(call.name)) = 3 /\ getSize(call.name)[3] # call.m.LocalNz) =>
         res.ret = "throw" /\ res.exc = "zsize" /\ res.reads = 0
    /\ (/\ Len(getSize(call.name)) = 3
        /\ getSize(call.name)[3] = call.m.LocalNz
        /\ res.ret = "true" /\ ~res.ub) =>
         \A jx \in res.win[1].xs..(res.win[1].xs + res.win[1].nx - 1),
            jy \in res.win[1].ys..(res.win[1].ys + res.win[1].ny - 1) :
              RowCopied(res.var, res.win[1], jx, jy)

\* a getField call has just ended that computed its read window
WindowDone == FieldDone /\ res.win # << >>

\* the backend delivers the r-th row read of the last call
RowReadOK(r) ==
  LET w == res.win[1]
      k == r - 1
  IN  IF call.is3D
      THEN BackendZRowOK(call.name, w.xs + (k \div w.ny), w.ys + (k % w.ny),
                         r, call.failAt)
      ELSE BackendRowOK(call.name, w.xs + k, w.ys, w.ny, r, call.failAt)

\* a row read of the last call failed (the last one issued: none follows it)
RowReadFailed == WindowDone /\ res.reads > 0 /\ ~RowReadOK(res.reads)

\* the cell (x, y) is one the rows of the window are copied to
InWindow(w, x, y) ==
  /\ x >= w.xd /\ x < w.xd + w.nx
  /\ y >= w.yd /\ y < w.yd + w.ny

\* the cells the rows are copied to are cells of the handle
WindowFits ==
  /\ res.win[1].xd >= 0 /\ res.win[1].xd + res.win[1].nx <= res.var.nx
  /\ res.win[1].yd >= 0 /\ res.win[1].yd + res.win[1].ny <= res.var.ny

\* the cells outside the window hold what allocate() left: nothing was
\* assigned to a guard cell
GuardCellsUntouched ==
  \A x \in 0..(res.var.nx - 1), y \in 0..(res.var.ny - 1), z \in 0..(res.var.nz - 1) :
     ~InWindow(res.win[1], x, y) => At(res.var, x, y, z) = Uninit

\* C12: if a backend row read fails, getField raises and (the window lying
\* inside the handle) no guard cell has been assigned; getField returns
\* true only after every row read it issued has succeeded.
C12_ExtrapolationAfterAllReads ==
  /\ RowReadFailed =>
       /\ res.ret = "throw"
       /\ WindowFits => GuardCellsUntouched
  /\ (WindowDone /\ res.ret = "true") =>
       \A r \in 1..res.reads : RowReadOK(r)

C12_Witness ==
  /\ RowReadFailed /\ WindowFits /\ call.failAt = 2 /\ res.reads = 2
  /\ res.ret = "throw" /\ res.exc = "fetch"
  /\ grid_yguards = 0 /\ Myg > 0
  /\ At(res.var, res.win[1].xd, res.win[1].yd, 0) # Uninit
  /\ At(res.var, res.win[1].xd, 0, 0) = Uninit

\* a Field3D load of a stored 3-D variable has just returned true on the
\* spectral path (file without "nz"), its window inside the handle
SpectralLoaded ==
  /\ WindowDone /\ call.is3D /\ valid /\ ~fileHasNz
  /\ Len(getSize(call.name)) = 3
  /\ res.ret = "true" /\ WindowFits

\* the largest stored mode m = (stored z-length - 1)/2
StoredModes == (getSize(call.name)[3] - 1) \div 2

\* the spectrum the claim states for row (jx, jy), raw[j] being the stored
\* value at (jx, jy, j)
StatedSpectrum(jx, jy) ==
  [i \in 0..(call.m.LocalNz \div 2) |->
     IF i = 0 THEN <<Datum(jx, jy, 0), <<0>>>>
     ELSE IF i * call.m.zperiod <= StoredModes
          THEN <<Datum(jx, jy, 2 * i * call.m.zperiod - 1),
                 Datum(jx, jy, 2 * i * call.m.zperiod)>>
          ELSE <<<<0>>, <<0>>>>]

\* the spectrum of a DC-only row: every entry but the first is zero
DCSpectrum(jx, jy) ==
  [i \in 0..(call.m.LocalNz \div 2) |->
     IF i = 0 THEN <<Datum(jx, jy, 0), <<0>>>> ELSE <<<<0>>, <<0>>>>]

\* every sample of the destination row of (jx, jy) is the inverse transform
\* of the spectrum fdata
RowTransformOf(jx, jy, fdata) ==
  \A z \in 0..(res.var.nz - 1) :
     At(res.var, jx - res.win[1].xs + res.win[1].xd,
                 jy - res.win[1].ys + res.win[1].yd, z)
       = <<z>> \o FlatSpectrum(fdata, 0)

\* C13: on the spectral path the spectrum handed to the inverse transform
\* for every row has floor(LocalNz/2)+1 entries, entry 0 the stored DC
\* value, entry i the stored pair (raw[2*i*zperiod-1], raw[2*i*zperiod])
\* when i*zperiod <= m and zero otherwise; with m = 0 every entry but the
\* first is zero, for any zperiod.
C13_SpectrumPerRow ==
  SpectralLoaded =>
    \A jx \in res.win[1].xs..(res.win[1].xs + res.win[1].nx - 1),
       jy \in res.win[1].ys..(res.win[1].ys + res.win[1].ny - 1) :
         /\ RowTransformOf(jx, jy, StatedSpectrum(jx, jy))
         /\ StoredModes = 0 => RowTransformOf(jx, jy, DCSpectrum(jx, jy))

\* the rows read lie inside the stored x and y extents of the variable
SourceFits ==
  /\ res.win[1].xs >= 0
  /\ res.win[1].xs + res.win[1].nx <= getSize(call.name)[1]
  /\ res.win[1].ys >= 0
  /\ res.win[1].ys + res.win[1].ny <= getSize(call.name)[2]

\* C14: whenever getField accepts the layout of a stored variable and goes
\* on to read its rows, every destination cell lies inside the handle
\* (xd >= 0, yd >= 0, xd + nx_to_read <= LocalNx, yd + ny_to_read <= LocalNy)
\* and the source window lies inside the stored x and y extents.
C14_WindowInsideHandleAndFile ==
  (WindowDone /\ valid) => WindowFits /\ SourceFits

\* a Field3D load of a stored 3-D variable has just ended that reached the
\* spectral reader (file without "nz")
SpectralDone ==
  /\ WindowDone /\ call.is3D /\ valid /\ ~fileHasNz
  /\ Len(getSize(call.name)) = 3

\* every entry of the spectrum behind the sample holds two values read
\* inside the raw sequence (a read outside it delivers no value)
SpectrumComplete(sample) == Len(sample) = 1 + 2 * ((call.m.LocalNz \div 2) + 1)

\* C15: on the spectral path, for every stored z-length >= 1, LocalNz >= 1
\* and zperiod >= 0, no division by zero occurs when the largest mode is
\* selected and every index into the raw sequence of a row lies in
\* 0 .. stored z-length - 1.
C15_SpectralIndicesInRange ==
  SpectralDone =>
    /\ res.ret # "crash"
    /\ (res.ret = "true" /\ WindowFits) =>
         \A jx \in res.win[1].xs..(res.win[1].xs + res.win[1].nx - 1),
            jy \in res.win[1].ys..(res.win[1].ys + res.win[1].ny - 1),
            z \in 0..(res.var.nz - 1) :
              SpectrumComplete(At(res.var, jx - res.win[1].xs + res.win[1].xd,
                                           jy - res.win[1].ys + res.win[1].yd, z))

====
